---- MODULE Spec2Model ----
(***************************************************************************)
(* The Firestore write planner of cloudflare-firebase: the value codec     *)
(* (serializer.ts), the sentinels and the UpdateCollector (field-value.ts),*)
(* the WriteBatch and its commit (write-batch.ts), the DocumentSnapshot    *)
(* (document.ts) with the batchGet that makes snapshots (firestore.ts),    *)
(* and the token getter of a service (tokens.ts).                          *)
(*                                                                         *)
(* Native values are records tagged by k (null, undefined, boolean,        *)
(* number, string, array, object, FieldValue), the payload of each kind    *)
(* under a field name of its own.                                          *)
(* An object is the sequence of its <<key, value>> entries in insertion    *)
(* order (Object.entries); keys are unique.  Wire values are records       *)
(* tagged by their kind key (nullValue, integerValue, ...).  An optional   *)
(* property is a sequence: <<>> when undefined, <<x>> when set.            *)
(*                                                                         *)
(* The repository holds two UpdateCollector classes (field-value.ts and    *)
(* the earlier one of unnamed/part_002, the only one with removeField).    *)
(* serializer.ts is built against one of them; which one is the variable   *)
(* build.                                                                  *)
(*                                                                         *)
(* Text the code takes apart (the decimal text of a number, base64) is a   *)
(* sequence of one-character strings; a number is an integer of small      *)
(* magnitude (NNum), a wide integer in two decimal parts (NBig), an odd    *)
(* number of halves (NHalf) or one of -0, NaN and the infinities.  Spec is *)
(* a batch up to the requests of its commits, SpecPlan one planning call,  *)
(* SpecCommit a batch with the answers to its commits, SpecCodec the calls *)
(* of the codec, of batchGet and of a snapshot, SpecToken the calls of one *)
(* token getter as time goes by.                                           *)
(***************************************************************************)
EXTENDS Integers, Sequences, FiniteSets, TLC

VARIABLES
  build,     \* which UpdateCollector class the build holds: "skip" or "retract"
  writes,    \* WriteBatch._writes
  frozen,    \* whether Object.freeze has been applied to _writes
  requests,  \* the requests handed to firestore.request, in order
  last,      \* the last call made on the batch and what it gave
  log,       \* history: the writes the calls built and pushed, in call order
  commits,   \* the promises commit() returned, in call order
  call,      \* the last call of the codec or of a snapshot and what it gave
  token,     \* getTokenGetter: let token, <<>> while undefined
  tokenExp,  \* getTokenGetter: let tokenExp, <<>> while undefined
  clock,     \* what now() gives: seconds, counted from the making of the token getter
  minting,   \* the getToken calls that await createToken, in call order
  issued     \* history: the getToken calls that have settled, with what they gave

vars ==
  <<build, writes, frozen, requests, last, log, commits, call,
    token, tokenExp, clock, minting, issued>>

\* The variables of a batch, of the codec and of the commits
batchVars == <<build, writes, frozen, requests, last, log, commits, call>>

\* The variables of a token getter
tokenVars == <<token, tokenExp, clock, minting, issued>>

(* ------------------------------ bounds ------------------------------- *)

MaxWrites == 2

MaxCommits == 2

MaxFields == 2

MaxBytes == 2

MaxElems == 2

MaxPath == 3

MaxRefs == 2

MaxCalls == 3

MaxTicks == 2

(* --------------------------- native values --------------------------- *)

NNull == [k |-> "null"]

NUndefined == [k |-> "undefined"]

NBool(b) == [k |-> "boolean", b |-> b]

NNum(n) == [k |-> "number", n |-> n]

NStr(s) == [k |-> "string", s |-> s]

NArr(elems) == [k |-> "array", elems |-> elems]

\* A Date, by its time value in milliseconds since the epoch
NDate(ms) == [k |-> "Date", ms |-> ms]

\* An ArrayBuffer, by its bytes
NBytes(bytes) == [k |-> "ArrayBuffer", bytes |-> bytes]

\* A Uint8Array over the whole of a buffer of its own
NUint8Array(bytes) == [k |-> "Uint8Array", buffer |-> NBytes(bytes)]

\* The numbers NNum does not hold.  An integer of magnitude 10^9 and more is
\* sign * (hi * 10^9 + lo) with lo < 10^9; the model holds only such integers as are
\* doubles (every integer up to 2^53, the even ones just above).
NBig(sign, hi, lo) == [k |-> "number", sign |-> sign, hi |-> hi, lo |-> lo]

\* halves / 2 for an odd halves: 1.5 is NHalf(3), -2.5 is NHalf(-5)
NHalf(halves) == [k |-> "number", halves |-> halves]

\* -0, NaN, Infinity and -Infinity
NSpecial(name) == [k |-> "number", special |-> name]

\* Number.MAX_SAFE_INTEGER, 2^53 - 1
MaxSafeInteger == NBig(1, 9007199, 254740991)

MinSafeInteger == NBig(-1, 9007199, 254740991)

\* A DocumentReference of the client, by the path it was made from
NRef(path) == [k |-> "Reference", rel |-> path]

NFunction == [k |-> "function"]

NSymbol == [k |-> "symbol"]

NBigInt(n) == [k |-> "bigint", big |-> n]

NObj(entries) == [k |-> "object", entries |-> entries]

\* new FieldValue(transform, value)
FieldValue(transform, value) == [k |-> "FieldValue", transform |-> transform, value |-> value]

serverTimestamp == FieldValue("setToServerValue", NStr("REQUEST_TIME"))

increment(n) == FieldValue("increment", NNum(n))

arrayUnion(elements) == FieldValue("appendMissingElements", NArr(elements))

\* Object.entries of a FieldValue instance: its two readonly properties.
OwnEntries(value) ==
  IF value.k = "FieldValue"
    THEN << <<"transform", NStr(value.transform)>>, <<"value", value.value>> >>
    ELSE value.entries

(* ---------------------------- conversions ---------------------------- *)

Digit(d) ==
  CASE d = 0 -> "0" [] d = 1 -> "1" [] d = 2 -> "2" [] d = 3 -> "3" [] d = 4 -> "4"
    [] d = 5 -> "5" [] d = 6 -> "6" [] d = 7 -> "7" [] d = 8 -> "8" [] d = 9 -> "9"

RECURSIVE Digits(_)
Digits(n) == IF n < 10 THEN <<Digit(n)>> ELSE Append(Digits(n \div 10), Digit(n % 10))

\* '' + value for an integer: its decimal digits, as a sequence of characters.
NumToString(n) == IF n < 0 THEN <<"-">> \o Digits(0 - n) ELSE Digits(n)

Abs(n) == IF n < 0 THEN 0 - n ELSE n

\* The nine decimal digits of the low part of a wide integer
Pad9(lo) == [i \in 1..(9 - Len(Digits(lo))) |-> "0"] \o Digits(lo)

\* Number.isInteger(value)
IsInteger(value) ==
  CASE "n" \in DOMAIN value -> TRUE
    [] "hi" \in DOMAIN value -> TRUE
    [] "special" \in DOMAIN value -> value.special = "-0"
    [] OTHER -> FALSE

\* Number.isSafeInteger(value): an integer of magnitude at most 2^53 - 1
IsSafeInteger(value) ==
  CASE "n" \in DOMAIN value -> TRUE
    [] "hi" \in DOMAIN value ->
         value.hi < MaxSafeInteger.hi
           \/ (value.hi = MaxSafeInteger.hi /\ value.lo <= MaxSafeInteger.lo)
    [] "special" \in DOMAIN value -> value.special = "-0"
    [] OTHER -> FALSE

\* value === 0 && 1 / value === 1 / -0
IsNegativeZero(value) == "special" \in DOMAIN value /\ value.special = "-0"

\* '' + value for a number, as a sequence of characters
StringOfNumber(value) ==
  CASE "n" \in DOMAIN value -> NumToString(value.n)
    [] "hi" \in DOMAIN value ->
         (IF value.sign < 0 THEN <<"-">> ELSE <<>>) \o Digits(value.hi) \o Pad9(value.lo)
    [] "halves" \in DOMAIN value ->
         (IF value.halves < 0 THEN <<"-">> ELSE <<>>)
           \o Digits(Abs(value.halves) \div 2) \o <<".", "5">>
    [] value.special = "-0" -> <<"0">>
    [] value.special = "NaN" -> <<"N", "a", "N">>
    [] value.special = "Infinity" -> <<"I", "n", "f", "i", "n", "i", "t", "y">>
    [] value.special = "-Infinity" -> <<"-", "I", "n", "f", "i", "n", "i", "t", "y">>

IsDigit(ch) == ch \in {"0", "1", "2", "3", "4", "5", "6", "7", "8", "9"}

DigitValue(ch) == CHOOSE d \in 0..9 : Digit(d) = ch

\* The value of at most nine decimal digits
RECURSIVE DigitsValue(_)
DigitsValue(chars) ==
  IF Len(chars) = 0 THEN 0
  ELSE 10 * DigitsValue(SubSeq(chars, 1, Len(chars) - 1)) + DigitValue(chars[Len(chars)])

\* The longest prefix of chars made of decimal digits
RECURSIVE LeadingDigits(_)
LeadingDigits(chars) ==
  IF Len(chars) = 0 \/ ~IsDigit(chars[1]) THEN <<>>
  ELSE <<chars[1]>> \o LeadingDigits(Tail(chars))

RECURSIVE StripZeros(_)
StripZeros(chars) ==
  IF Len(chars) > 1 /\ chars[1] = "0" THEN StripZeros(Tail(chars)) ELSE chars

\* The number of a sign and a run of decimal digits (an integer that is a double)
IntegerOf(negative, digits) ==
  LET ds == StripZeros(digits)
  IN IF Len(ds) <= 9
       THEN IF negative /\ DigitsValue(ds) = 0 THEN NSpecial("-0")
            ELSE NNum(IF negative THEN 0 - DigitsValue(ds) ELSE DigitsValue(ds))
       ELSE NBig(IF negative THEN -1 ELSE 1,
                 DigitsValue(SubSeq(ds, 1, Len(ds) - 9)),
                 DigitsValue(SubSeq(ds, Len(ds) - 8, Len(ds))))

\* parseInt(chars, 10): an optional sign, then the leading decimal digits
parseInt(chars) ==
  LET negative == Len(chars) > 0 /\ chars[1] = "-"
      rest == IF Len(chars) > 0 /\ chars[1] \in {"-", "+"} THEN Tail(chars) ELSE chars
      digits == LeadingDigits(rest)
  IN IF digits = <<>> THEN NSpecial("NaN") ELSE IntegerOf(negative, digits)

\* parseFloat(chars) for the decimal text of an integer or of an odd number of
\* halves, and for Infinity; any other text gives NaN
parseFloat(chars) ==
  LET negative == Len(chars) > 0 /\ chars[1] = "-"
      rest == IF Len(chars) > 0 /\ chars[1] \in {"-", "+"} THEN Tail(chars) ELSE chars
      digits == LeadingDigits(rest)
      after == SubSeq(rest, Len(digits) + 1, Len(rest))
  IN CASE rest = <<"I", "n", "f", "i", "n", "i", "t", "y">> ->
            NSpecial(IF negative THEN "-Infinity" ELSE "Infinity")
       [] digits = <<>> -> NSpecial("NaN")
       [] Len(after) >= 2 /\ after[1] = "." /\ after[2] = "5" ->
            NHalf((IF negative THEN -1 ELSE 1) * (2 * DigitsValue(digits) + 1))
       [] OTHER -> IntegerOf(negative, digits)

\* The replacement character U+FFFD and the byte order mark U+FEFF
Replacement == 65533

ByteOrderMark == 65279

RECURSIVE Utf8From(_, _), Utf8Continue(_, _, _, _, _, _)

\* The UTF-8 decoder from byte i on, at the start of a character: an ASCII byte is its
\* own code point, a lead byte opens a sequence of two to four bytes, any other byte
\* gives U+FFFD.
Utf8From(bytes, i) ==
  IF i > Len(bytes) THEN <<>>
  ELSE LET b == bytes[i]
       IN CASE b <= 127 -> <<b>> \o Utf8From(bytes, i + 1)
            [] b \in 194..223 -> Utf8Continue(bytes, i + 1, b - 192, 1, 128, 191)
            [] b \in 224..239 ->
                 Utf8Continue(bytes, i + 1, b - 224, 2,
                              IF b = 224 THEN 160 ELSE 128, IF b = 237 THEN 159 ELSE 191)
            [] b \in 240..244 ->
                 Utf8Continue(bytes, i + 1, b - 240, 3,
                              IF b = 240 THEN 144 ELSE 128, IF b = 244 THEN 143 ELSE 191)
            [] OTHER -> <<Replacement>> \o Utf8From(bytes, i + 1)

\* The decoder inside a sequence: point is the code point so far, needed the bytes
\* still to come, lower..upper the range the next byte must be in.  A byte out of
\* range ends the sequence with U+FFFD and is decoded again as a first byte.
Utf8Continue(bytes, i, point, needed, lower, upper) ==
  IF i > Len(bytes) THEN <<Replacement>>
  ELSE IF bytes[i] \notin lower..upper THEN <<Replacement>> \o Utf8From(bytes, i)
  ELSE IF needed = 1 THEN <<point * 64 + (bytes[i] - 128)>> \o Utf8From(bytes, i + 1)
  ELSE Utf8Continue(bytes, i + 1, point * 64 + (bytes[i] - 128), needed - 1, 128, 191)

\* new TextDecoder('utf8').decode(buffer): the code points of the text, a leading
\* byte order mark dropped.  (A code point above U+FFFF is two code units of the
\* string, each above 255.)
TextDecode(bytes) ==
  LET points == Utf8From(bytes, 1)
  IN IF Len(points) > 0 /\ points[1] = ByteOrderMark THEN Tail(points) ELSE points

Base64Chars ==
  << "A", "B", "C", "D", "E", "F", "G", "H", "I", "J", "K", "L", "M", "N", "O", "P",
     "Q", "R", "S", "T", "U", "V", "W", "X", "Y", "Z", "a", "b", "c", "d", "e", "f",
     "g", "h", "i", "j", "k", "l", "m", "n", "o", "p", "q", "r", "s", "t", "u", "v",
     "w", "x", "y", "z", "0", "1", "2", "3", "4", "5", "6", "7", "8", "9", "+", "/" >>

Base64Index(ch) == CHOOSE i \in 1..64 : Base64Chars[i] = ch

\* The base64 text of a sequence of bytes
RECURSIVE Base64(_)
Base64(bytes) ==
  IF Len(bytes) = 0 THEN <<>>
  ELSE LET b1 == bytes[1]
           b2 == IF Len(bytes) >= 2 THEN bytes[2] ELSE 0
           b3 == IF Len(bytes) >= 3 THEN bytes[3] ELSE 0
       IN << Base64Chars[(b1 \div 4) + 1],
             Base64Chars[((b1 % 4) * 16 + (b2 \div 16)) + 1],
             IF Len(bytes) >= 2 THEN Base64Chars[((b2 % 16) * 4 + (b3 \div 64)) + 1]
                                ELSE "=",
             IF Len(bytes) >= 3 THEN Base64Chars[(b3 % 64) + 1] ELSE "=" >>
            \o (IF Len(bytes) > 3 THEN Base64(SubSeq(bytes, 4, Len(bytes))) ELSE <<>>)

\* btoa(text), text being a sequence of code points: a character above 255 raises an
\* InvalidCharacterError.
btoa(points) ==
  IF \E i \in 1..Len(points) : points[i] > 255
    THEN [err |-> TRUE, error |-> "InvalidCharacterError", chars |-> <<>>]
    ELSE [err |-> FALSE, error |-> "", chars |-> Base64(points)]

\* The bytes of a padded base64 text
RECURSIVE Base64Bytes(_)
Base64Bytes(chars) ==
  IF Len(chars) = 0 THEN <<>>
  ELSE LET i1 == Base64Index(chars[1]) - 1
           i2 == Base64Index(chars[2]) - 1
           i3 == IF chars[3] = "=" THEN 0 ELSE Base64Index(chars[3]) - 1
           i4 == IF chars[4] = "=" THEN 0 ELSE Base64Index(chars[4]) - 1
       IN << i1 * 4 + (i2 \div 16) >>
            \o (IF chars[3] = "=" THEN <<>> ELSE << (i2 % 16) * 16 + (i3 \div 4) >>)
            \o (IF chars[4] = "=" THEN <<>> ELSE << (i3 % 4) * 64 + i4 >>)
            \o Base64Bytes(SubSeq(chars, 5, Len(chars)))

\* atob(text) of a padded base64 text, as the sequence of its character codes; a text
\* that is not base64 raises an InvalidCharacterError.
atob(chars) ==
  IF Len(chars) % 4 # 0
       \/ \E i \in 1..Len(chars) :
            chars[i] \notin {Base64Chars[j] : j \in 1..64}
              /\ ~(chars[i] = "=" /\ i > Len(chars) - 2)
    THEN [err |-> TRUE, error |-> "InvalidCharacterError", codes |-> <<>>]
    ELSE [err |-> FALSE, error |-> "", codes |-> Base64Bytes(chars)]

\* paths.join('.')
RECURSIVE Join(_)
Join(paths) ==
  IF Len(paths) = 0 THEN ""
  ELSE IF Len(paths) = 1 THEN paths[1]
  ELSE Join(SubSeq(paths, 1, Len(paths) - 1)) \o "." \o paths[Len(paths)]

(* ------------------------------ wire values -------------------------- *)

nullValue == [k |-> "nullValue"]

booleanValue(b) == [k |-> "booleanValue", b |-> b]

integerValue(str) == [k |-> "integerValue", digits |-> str]

\* { doubleValue }, holding a string or a number
doubleValue(payload) == [k |-> "doubleValue", double |-> payload]

\* The string '' + value gives, as the payload of a wire value
Text(chars) == [t |-> "string", chars |-> chars]

\* A timestamp of the wire (RFC 3339 text): the instant in whole milliseconds since
\* the epoch, and the digits the text holds after the milliseconds (0 for none).
Timestamp(ms, sub) == [ms |-> ms, sub |-> sub]

\* new Date(text) of a timestamp of the wire: the time value keeps the milliseconds
\* and drops the digits after them.
NewDate(text) == NDate(text.ms)

timestampValue(text) == [k |-> "timestampValue", text |-> text]

stringValue(s) == [k |-> "stringValue", s |-> s]

bytesValue(chars) == [k |-> "bytesValue", base64 |-> chars]

referenceValue(path) == [k |-> "referenceValue", path |-> path]

geoPointValue(value) == [k |-> "geoPointValue", geo |-> value]

\* { arrayValue: { values } }
arrayValue(values) == [k |-> "arrayValue", values |-> values]

\* { mapValue: { fields } }, fields being the <<key, wire value>> entries in insertion order
mapValue(fields) == [k |-> "mapValue", fields |-> fields]

(* --------------------------- UpdateCollector -------------------------- *)

\* new UpdateCollector() of the class the build holds: variant "skip" is the class of
\* field-value.ts, variant "retract" the class of unnamed/part_002.
UpdateCollector(variant) ==
  [variant |-> variant, paths |-> <<>>, mask |-> <<>>, transforms |-> <<>>]

\* The collector argument left out: every collector?.m() call is skipped.
NoCollector == UpdateCollector("none")

enterField(c, field) ==
  IF c.variant = "none" THEN c ELSE [c EXCEPT !.paths = Append(@, field)]

\* this.transforms[this.transforms.length - 1]?.fieldPath
LastTransformPath(c) ==
  IF Len(c.transforms) = 0 THEN <<>> ELSE <<c.transforms[Len(c.transforms)].fieldPath>>

Pop(seq) == IF Len(seq) = 0 THEN seq ELSE SubSeq(seq, 1, Len(seq) - 1)

leaveFieldSkip(c, addMask) ==
  [c EXCEPT !.mask = IF addMask /\ LastTransformPath(c) # <<Join(c.paths)>>
                       THEN Append(@, Join(c.paths)) ELSE @,
            !.paths = Pop(@)]

leaveFieldRetract(c, addMask) ==
  [c EXCEPT !.mask = IF addMask THEN Append(@, Join(c.paths)) ELSE @,
            !.paths = Pop(@)]

leaveField(c, addMask) ==
  CASE c.variant = "none" -> c
    [] c.variant = "skip" -> leaveFieldSkip(c, addMask)
    [] c.variant = "retract" -> leaveFieldRetract(c, addMask)

\* collector?.removeField(): the class of field-value.ts has no such method, and calling
\* it raises a TypeError; the class of part_002 pops the last mask entry.
removeField(c) ==
  CASE c.variant = "none" -> [err |-> FALSE, error |-> "", c |-> c]
    [] c.variant = "skip" -> [err |-> TRUE, error |-> "TypeError", c |-> c]
    [] c.variant = "retract" ->
         [err |-> FALSE, error |-> "", c |-> [c EXCEPT !.mask = Pop(@)]]

(* ------------------------------ serializer --------------------------- *)

Keys(entries) == {entries[i][1] : i \in 1..Len(entries)}

IsGeoPoint(value) ==
  /\ value.k \in {"object", "FieldValue"}
  /\ {"latitude", "longitude"} \subseteq Keys(OwnEntries(value))
  /\ Len(OwnEntries(value)) = 2

Truthy(value) ==
  CASE value.k \in {"null", "undefined"} -> FALSE
    [] value.k = "boolean" -> value.b
    [] value.k = "number" -> value.n # 0
    [] value.k = "string" -> value.s # ""
    [] OTHER -> TRUE

\* firestore.basePath of the client, its settings naming project p
BasePath == "projects/p/databases/(default)/documents"

\* reference.qualifiedPath: the absolute path of a reference, the client's basePath,
\* a slash and the path the reference was made from
ReferencePath(reference) == BasePath \o "/" \o reference.rel

\* value.qualifiedPath, <<>> when the value has no such property
QualifiedPath(value) ==
  IF value.k \in {"object", "FieldValue"}
    THEN LET es == OwnEntries(value)
             at == {i \in 1..Len(es) : es[i][1] = "qualifiedPath"}
         IN IF at = {} THEN <<>> ELSE <<es[CHOOSE i \in at : TRUE][2]>>
    ELSE IF value.k = "Reference" THEN <<NStr(ReferencePath(value))>>
    ELSE <<>>

RECURSIVE encode(_, _), encodeValue(_, _), EncodeEntries(_, _, _, _), EncodeElements(_, _, _, _)

\* FieldValue.encode(fieldPath), the result being [err, entry]
FieldValueEncode(sentinel, fieldPath) ==
  IF fieldPath = "setToServerValue"
    THEN [err |-> FALSE, error |-> "",
          entry |-> [fieldPath |-> fieldPath, transform |-> sentinel.transform,
                     value |-> [k |-> "raw", raw |-> sentinel.value]]]
    ELSE LET r == encodeValue(sentinel.value, NoCollector)
         IN [err |-> r.err, error |-> r.error,
             entry |-> [fieldPath |-> fieldPath, transform |-> sentinel.transform,
                        value |-> IF r.err THEN nullValue ELSE r.val]]

transformFront(c, sentinel) ==
  IF c.variant = "none" THEN [err |-> FALSE, error |-> "", c |-> c]
  ELSE LET e == FieldValueEncode(sentinel, Join(c.paths))
       IN [err |-> e.err, error |-> e.error,
           c |-> IF e.err THEN c ELSE [c EXCEPT !.transforms = <<e.entry>> \o @]]

\* UpdateCollector.transform(transform), the result being [err, c]
transform(c, sentinel) ==
  IF c.variant = "none" THEN [err |-> FALSE, error |-> "", c |-> c]
  ELSE LET e == FieldValueEncode(sentinel, Join(c.paths))
       IN [err |-> e.err, error |-> e.error,
           c |-> IF e.err THEN c ELSE [c EXCEPT !.transforms = Append(@, e.entry)]]

\* The forEach of encode from entry i on; fields holds the entries set so far.
EncodeEntries(entries, i, fields, c) ==
  IF i > Len(entries) THEN [err |-> FALSE, error |-> "", fields |-> fields, c |-> c]
  ELSE LET key == entries[i][1]
           value == entries[i][2]
           c1 == enterField(c, key)
       IN IF value.k = "undefined"
            THEN EncodeEntries(entries, i + 1, fields, leaveField(c1, TRUE))
            ELSE LET r == encodeValue(value, c1)
                     shouldAddMask == ~(r.val.k \in {"arrayValue", "mapValue"})
                 IN IF r.err
                      THEN [err |-> TRUE, error |-> r.error, fields |-> fields, c |-> r.c]
                    ELSE EncodeEntries(entries, i + 1, Append(fields, <<key, r.val>>),
                                       leaveField(r.c, shouldAddMask))

\* encode(map, collector), the result being [err, fields, c]
encode(map, c) == EncodeEntries(OwnEntries(map), 1, <<>>, c)

\* value.map(v => encodeValue(v, collector)) from element i on
EncodeElements(elems, i, values, c) ==
  IF i > Len(elems) THEN [err |-> FALSE, error |-> "", values |-> values, c |-> c]
  ELSE LET r == encodeValue(elems[i], c)
       IN IF r.err THEN [err |-> TRUE, error |-> r.error, values |-> values, c |-> r.c]
          ELSE EncodeElements(elems, i + 1, Append(values, r.val), r.c)

\* encodeValue returning val, and encodeValue throwing error
Returned(val, c) == [err |-> FALSE, error |-> "", val |-> val, c |-> c]

Thrown(error, c) == [err |-> TRUE, error |-> error, val |-> nullValue, c |-> c]

\* typeof value
TypeOf(value) ==
  CASE value.k \in {"undefined", "boolean", "number", "string", "function", "symbol",
                    "bigint"} -> value.k
    [] OTHER -> "object"

\* date.toISOString(): the time value, to the millisecond
toISOString(date) == Timestamp(date.ms, 0)

\* { bytesValue: btoa(new TextDecoder('utf8').decode(buffer)) }
EncodeBytes(bytes, c) ==
  LET r == btoa(TextDecode(bytes))
  IN IF r.err THEN Thrown(r.error, c) ELSE Returned(bytesValue(r.chars), c)

\* The dispatch of encodeValue after the FieldValue test (lines 27 to 35), c being the
\* collector as the FieldValue branch left it.  Reading qualifiedPath of undefined
\* raises a TypeError.
EncodeRest(value, c) ==
  CASE value.k = "Date" -> Returned(timestampValue(toISOString(value)), c)
    [] value.k = "undefined" -> Thrown("TypeError", c)
    [] QualifiedPath(value) # <<>> /\ Truthy(QualifiedPath(value)[1]) ->
         Returned(referenceValue(QualifiedPath(value)[1]), c)
    [] value.k = "string" -> Returned(stringValue(value.s), c)
    [] value.k = "ArrayBuffer" -> EncodeBytes(value.bytes, c)
    [] value.k = "Uint8Array" -> EncodeBytes(value.buffer.bytes, c)
    [] IsGeoPoint(value) -> Returned(geoPointValue(value), c)
    [] value.k = "array" ->
         LET r == EncodeElements(value.elems, 1, <<>>, c)
         IN [err |-> r.err, error |-> r.error, val |-> arrayValue(r.values), c |-> r.c]
    [] TypeOf(value) = "object" ->
         LET r == encode(value, c)
         IN [err |-> r.err, error |-> r.error, val |-> mapValue(r.fields), c |-> r.c]
    [] OTHER -> Thrown("Unsupported value type: " \o TypeOf(value), c)

\* encodeValue(value, collector), the result being [err, error, val, c]: err when the
\* call throws, error what it throws, val the wire value returned, c the collector
\* afterwards.
encodeValue(value, c) ==
  CASE value.k = "null" -> Returned(nullValue, c)
    [] value.k = "boolean" -> Returned(booleanValue(value.b), c)
    [] value.k = "number" ->
         IF ~IsNegativeZero(value) /\ IsSafeInteger(value)
           THEN Returned(integerValue(StringOfNumber(value)), c)
           ELSE Returned(doubleValue(Text(StringOfNumber(value))), c)
    [] value.k = "FieldValue" ->
         LET t == transform(c, value)
             r == removeField(t.c)
         IN IF t.err THEN Thrown(t.error, c)
            ELSE IF r.err THEN Thrown(r.error, c)
            ELSE EncodeRest(value, r.c)
    [] OTHER -> EncodeRest(value, c)

(* ------------------------------- decoder ----------------------------- *)

\* A value object of the wire with one key is the record of that key; one with no
\* key or with several keys holds the records of its keys in key order.
ValueObject(parts) == [k |-> "keys", parts |-> parts]

\* Object.entries(valueObj)
ValueEntries(valueObj) == IF valueObj.k = "keys" THEN valueObj.parts ELSE <<valueObj>>

\* The property names of the model in ascending order of their UTF-16 code units,
\* the order Array.prototype.sort() puts them in
SortedNames ==
  << "10", "9", "a", "a.b", "b", "c", "latitude", "longitude", "qualifiedPath",
     "transform", "value" >>

Rank(name) == CHOOSE i \in 1..Len(SortedNames) : SortedNames[i] = name

\* The integer a property name is the canonical array index of, -1 for any other name
ArrayIndex(name) == CASE name = "9" -> 9 [] name = "10" -> 10 [] OTHER -> -1

\* names.sort()
RECURSIVE Sort(_)
Sort(names) ==
  IF Len(names) = 0 THEN <<>>
  ELSE LET rest == Sort(Tail(names))
           before == SelectSeq(rest, LAMBDA n : Rank(n) < Rank(names[1]))
           after == SelectSeq(rest, LAMBDA n : Rank(n) >= Rank(names[1]))
       IN before \o <<names[1]>> \o after

\* obj[prop] = value on a plain object that has no property prop, entries being its
\* properties in enumeration order: an array index goes among the array indices,
\* which come first in ascending numeric order; any other name goes last.
Assign(entries, prop, value) ==
  IF ArrayIndex(prop) < 0 THEN Append(entries, <<prop, value>>)
  ELSE LET before ==
             SelectSeq(entries, LAMBDA e : ArrayIndex(e[1]) >= 0
                                            /\ ArrayIndex(e[1]) < ArrayIndex(prop))
           after ==
             SelectSeq(entries, LAMBDA e : ArrayIndex(e[1]) < 0
                                            \/ ArrayIndex(e[1]) > ArrayIndex(prop))
       IN before \o << <<prop, value>> >> \o after

\* fields[prop]
Field(fields, prop) ==
  LET at == {i \in 1..Len(fields) : fields[i][1] = prop}
  IN IF at = {} THEN <<>> ELSE <<fields[CHOOSE i \in at : TRUE][2]>>

\* value.replace(RESOURCE_PATH_RE, ''): the path after projects/*/databases/*/documents/
StripResourcePath(path) ==
  CASE path = BasePath \o "/c/d" -> "c/d"
    [] path = "projects/q/databases/(default)/documents/c/d" -> "c/d"
    [] OTHER -> path

\* decodeValue returning val, and decodeValue throwing error
Decoded(val) == [err |-> FALSE, error |-> "", val |-> val]

DecodeThrown(error) == [err |-> TRUE, error |-> error, val |-> NUndefined]

RECURSIVE decode(_), decodeValue(_), DecodeProps(_, _, _, _), DecodeElements(_, _, _)

\* The loop of decode over the sorted names from name i on, obj being the properties
\* set so far
DecodeProps(fields, names, i, obj) ==
  IF i > Len(names) THEN Decoded(NObj(obj))
  ELSE LET r == decodeValue(Field(fields, names[i])[1])
       IN IF r.err THEN r
          ELSE DecodeProps(fields, names, i + 1, Assign(obj, names[i], r.val))

\* decode(firestore, fields), fields being <<>> when null or undefined and <<entries>>
\* otherwise
decode(fields) ==
  IF fields = <<>> THEN Decoded(NObj(<<>>))
  ELSE DecodeProps(fields[1],
                   Sort([i \in 1..Len(fields[1]) |-> fields[1][i][1]]), 1, <<>>)

\* value.values.map(decodeValue.bind(null, firestore)) from element i on
DecodeElements(values, i, elems) ==
  IF i > Len(values) THEN Decoded(NArr(elems))
  ELSE LET r == decodeValue(values[i])
       IN IF r.err THEN r ELSE DecodeElements(values, i + 1, Append(elems, r.val))

\* The switch of decodeValue on the key and the value of one entry
DecodeEntry(e) ==
  CASE e.k = "nullValue" -> Decoded(NNull)
    [] e.k = "booleanValue" -> Decoded(NBool(e.b))
    [] e.k = "integerValue" -> Decoded(parseInt(e.digits))
    [] e.k = "doubleValue" ->
         Decoded(parseFloat(IF "chars" \in DOMAIN e.double THEN e.double.chars
                            ELSE StringOfNumber(e.double)))
    [] e.k = "timestampValue" -> Decoded(NewDate(e.text))
    [] e.k = "stringValue" -> Decoded(NStr(e.s))
    [] e.k = "bytesValue" ->
         LET r == atob(e.base64)
         IN IF r.err THEN DecodeThrown(r.error) ELSE Decoded(NBytes(r.codes))
    [] e.k = "geoPointValue" -> Decoded(e.geo)
    [] e.k = "arrayValue" ->
         IF "values" \in DOMAIN e THEN DecodeElements(e.values, 1, <<>>)
         ELSE Decoded(NArr(<<>>))
    [] e.k = "mapValue" -> decode(IF "fields" \in DOMAIN e THEN <<e.fields>> ELSE <<>>)
    [] e.k = "referenceValue" ->
         IF e.path.k = "string" THEN Decoded(NRef(StripResourcePath(e.path.s)))
         ELSE DecodeThrown("TypeError")
    [] OTHER -> Decoded(NUndefined)

\* decodeValue(firestore, valueObj): the last entry of the value object decides;
\* destructuring the undefined that pop() gives for no entry raises a TypeError.
decodeValue(valueObj) ==
  LET entries == ValueEntries(valueObj)
  IN IF Len(entries) = 0 THEN DecodeThrown("TypeError")
     ELSE DecodeEntry(entries[Len(entries)])

(* --------------------------- DocumentSnapshot ------------------------- *)

\* value.mapValue of a value object: <<>> when it has no such key
MapValueOf(valueObj) ==
  LET parts == SelectSeq(ValueEntries(valueObj), LAMBDA e : e.k = "mapValue")
  IN IF Len(parts) = 0 THEN <<>> ELSE <<parts[Len(parts)]>>

\* get(field) from the while loop on: fields is <<>> when null or undefined and
\* <<entries>> otherwise, components what is left of field.split('.').  Reading fields
\* of the undefined mapValue of a value that is not a map raises a TypeError.
RECURSIVE GetFrom(_, _)
GetFrom(fields, components) ==
  IF fields # <<>> /\ Len(components) > 1
    THEN LET next == Field(fields[1], components[1])
         IN IF next = <<>> THEN GetFrom(<<>>, Tail(components))
            ELSE IF MapValueOf(next[1]) = <<>> THEN DecodeThrown("TypeError")
            ELSE GetFrom(IF "fields" \in DOMAIN MapValueOf(next[1])[1]
                           THEN <<MapValueOf(next[1])[1].fields>> ELSE <<>>,
                         Tail(components))
    ELSE LET value == IF fields = <<>> THEN <<>> ELSE Field(fields[1], components[1])
         IN IF value = <<>> THEN Decoded(NUndefined) ELSE decodeValue(value[1])

\* snapshot.get(field) on a snapshot of the document doc, components being
\* field.split('.')
get(doc, components) == GetFrom(doc.fields, components)

\* new DocumentSnapshot(ref, doc, readTime): the default of the parameter doc stands
\* in for undefined only, a null is kept.  doc is NUndefined, NNull or an api.Document.
DocumentSnapshot(ref, doc, readTime) ==
  [ref |-> ref,
   doc |-> IF "k" \in DOMAIN doc /\ doc.k = "undefined"
             THEN [name |-> ReferencePath(ref), fields |-> <<>>]
             ELSE doc,
   readTime |-> readTime]

\* get exists(): !!doc.fields; reading fields of null raises a TypeError
exists(snapshot) ==
  IF "k" \in DOMAIN snapshot.doc THEN DecodeThrown("TypeError")
  ELSE Decoded(NBool(snapshot.doc.fields # <<>>))

\* data(): doc.fields && decode(firestore, doc.fields) || null
SnapshotData(snapshot) ==
  IF "k" \in DOMAIN snapshot.doc THEN DecodeThrown("TypeError")
  ELSE IF snapshot.doc.fields = <<>> THEN Decoded(NNull)
  ELSE decode(snapshot.doc.fields)

(* ------------------------------- batchGet ----------------------------- *)

\* An api.BatchGetResponse, one element of the answer to :batchGet: found is
\* <<the document>> or <<>>, missing <<the name of the document>> or <<>>
Found(doc, readTime) == [found |-> <<doc>>, missing |-> <<>>, readTime |-> readTime]

Missing(name, readTime) == [found |-> <<>>, missing |-> <<name>>, readTime |-> readTime]

\* result.missing || result.found.name: <<>> when reading name of undefined throws
ResultKey(result) ==
  IF result.missing # <<>> /\ result.missing[1] # "" THEN result.missing
  ELSE IF result.found # <<>> THEN <<result.found[1].name>>
  ELSE <<>>

\* docMap.get(name) once response.forEach has set every result under its key: the
\* last result of that key, <<>> when there is none
DocMapGet(response, name) ==
  LET at == {i \in 1..Len(response) : ResultKey(response[i]) = <<name>>}
  IN IF at = {} THEN <<>>
     ELSE <<response[CHOOSE i \in at : \A j \in at : j <= i]>>

\* The snapshot batchGet makes for reference number i of refs
SnapshotOf(refs, response, i) ==
  LET result == DocMapGet(response, ReferencePath(refs[i]))[1]
  IN DocumentSnapshot(refs[i],
                      IF result.missing # <<>> /\ result.missing[1] # "" THEN NNull
                      ELSE IF result.found # <<>> THEN result.found[1]
                      ELSE NUndefined,
                      result.readTime)

\* batchGet(refs) once the request has resolved to response: it throws a TypeError
\* when a result has neither missing nor found, or when a requested document has no
\* result
batchGet(refs, response) ==
  IF \/ \E i \in 1..Len(response) : ResultKey(response[i]) = <<>>
     \/ \E i \in 1..Len(refs) : DocMapGet(response, ReferencePath(refs[i])) = <<>>
    THEN DecodeThrown("TypeError")
    ELSE Decoded([i \in 1..Len(refs) |-> SnapshotOf(refs, response, i)])

(* -------------------------------- tokens ----------------------------- *)

\* const exp: the lifetime of a token, in seconds
exp == 3600

\* aud[service]
aud ==
  [auth |-> "https://identitytoolkit.googleapis.com/google.identity.identitytoolkit.v1.IdentityToolkit",
   firestore |-> "https://firestore.googleapis.com/google.firestore.v1.Firestore"]

\* The service account of the settings
ServiceAccount ==
  [clientEmail |-> "sa@p.iam.gserviceaccount.com", privateKeyId |-> "key1"]

\* createToken(serviceAccount, service, claims) at time now, claims being <<>> when
\* left out and <<[uid |-> <<>> or <<uid>>]>> otherwise.  The result is [err, error,
\* jwt]: reading uid of undefined raises a TypeError; jwt is the token by the payload
\* that is signed and the id of the key.  The spread of claims adds uid when it is
\* there.
createToken(serviceAccount, service, claims, now) ==
  IF claims = <<>>
    THEN [err |-> TRUE, error |-> "TypeError", jwt |-> <<>>]
    ELSE [err |-> FALSE, error |-> "",
          jwt |-> << [payload |->
                        [aud |-> aud[service],
                         iss |-> serviceAccount.clientEmail,
                         sub |-> IF claims[1].uid # <<>> /\ claims[1].uid[1] # ""
                                   THEN claims[1].uid[1]
                                   ELSE serviceAccount.clientEmail,
                         iat |-> now,
                         exp |-> now + exp,
                         uid |-> claims[1].uid],
                      keyid |-> serviceAccount.privateKeyId] >>]

\* !tokenExp || now() > tokenExp - 60
NeedsToken(expiry, now) == expiry = <<>> \/ expiry[1] = 0 \/ now > expiry[1] - 60

(* ------------------------------ WriteBatch --------------------------- *)

\* get length()
length(ws) == Len(ws)

\* The write _update builds from the encoded fields and the collector: <<>> when it
\* pushes nothing, <<write>> otherwise.
PlanWriteNoSkip(qualifiedPath, fields, c, type) ==
  << [update |-> [name |-> qualifiedPath, fields |-> fields],
      updateMask |-> IF type = "update" THEN <<[fieldPaths |-> c.mask]>> ELSE <<>>,
      updateTransforms |-> IF Len(c.transforms) # 0 THEN <<c.transforms>> ELSE <<>>,
      currentDocument |-> IF type = "create" THEN <<[exists |-> TRUE]>> ELSE <<>>] >>

PlanWriteMaskOnSet(qualifiedPath, fields, c, type) ==
  << [update |-> [name |-> qualifiedPath, fields |-> fields],
      updateMask |-> IF type # "create" THEN <<[fieldPaths |-> c.mask]>> ELSE <<>>,
      updateTransforms |-> IF Len(c.transforms) # 0 THEN <<c.transforms>> ELSE <<>>,
      currentDocument |-> IF type = "create" THEN <<[exists |-> TRUE]>> ELSE <<>>] >>

PlanWrite(qualifiedPath, fields, c, type) ==
  IF Len(c.mask) = 0 /\ type = "update"
    THEN IF Len(c.transforms) # 0
           THEN << [transform |-> [document |-> qualifiedPath,
                                   fieldTransforms |-> c.transforms]] >>
           ELSE <<>>
    ELSE << [update |-> [name |-> qualifiedPath, fields |-> fields],
             updateMask |-> IF type = "update" THEN <<[fieldPaths |-> c.mask]>> ELSE <<>>,
             updateTransforms |-> IF Len(c.transforms) # 0 THEN <<c.transforms>> ELSE <<>>,
             currentDocument |-> IF type = "create" THEN <<[exists |-> TRUE]>> ELSE <<>>] >>

PushFront(ws, isFrozen, write) ==
  IF isFrozen THEN [threw |-> TRUE, writes |-> ws]
  ELSE [threw |-> FALSE, writes |-> <<write>> \o ws]

\* this._writes.push(write) on the array ws: a frozen array is not extensible and push
\* throws a TypeError.
Push(ws, isFrozen, write) ==
  IF isFrozen THEN [threw |-> TRUE, writes |-> ws]
  ELSE [threw |-> FALSE, writes |-> Append(ws, write)]

UpdateCallKeepsPartial(ws, isFrozen, r, qualifiedPath, type) ==
  LET planned == PlanWrite(qualifiedPath, r.fields, r.c, type)
      pushed == Push(ws, isFrozen, planned[1])
  IN IF r.err
       THEN [threw |-> TRUE,
             writes |-> Push(ws, isFrozen, PlanWrite(qualifiedPath, r.fields, r.c, "set")[1]).writes,
             encoded |-> <<>>, planned |-> <<>>]
     ELSE [threw |-> IF planned = <<>> THEN FALSE ELSE pushed.threw,
           writes |-> IF planned = <<>> THEN ws ELSE pushed.writes,
           encoded |-> <<[fields |-> r.fields, mask |-> r.c.mask,
                          transforms |-> r.c.transforms]>>,
           planned |-> planned]

UpdateCallSharedCollector(ws, isFrozen, r, qualifiedPath, type) ==
  LET carried == IF Len(ws) > 0 /\ "updateMask" \in DOMAIN ws[Len(ws)]
                      /\ ws[Len(ws)].updateMask # <<>>
                   THEN ws[Len(ws)].updateMask[1].fieldPaths ELSE <<>>
      c == [r.c EXCEPT !.mask = carried \o @]
      planned == PlanWrite(qualifiedPath, r.fields, c, type)
      pushed == Push(ws, isFrozen, planned[1])
  IN IF r.err THEN [threw |-> TRUE, writes |-> ws, encoded |-> <<>>, planned |-> <<>>]
     ELSE [threw |-> IF planned = <<>> THEN FALSE ELSE pushed.threw,
           writes |-> IF planned = <<>> THEN ws ELSE pushed.writes,
           encoded |-> <<[fields |-> r.fields, mask |-> c.mask,
                          transforms |-> c.transforms]>>,
           planned |-> planned]

\* _update(ref, data, type) on a batch holding ws, r being what encode(data, collector)
\* gave: what the call leaves in _writes, whether it threw, what the collector and
\* encode gave (<<>> when encode threw) and the write it built (<<>> when none).
UpdateCall(ws, isFrozen, r, qualifiedPath, type) ==
  LET planned == PlanWrite(qualifiedPath, r.fields, r.c, type)
      pushed == Push(ws, isFrozen, planned[1])
  IN IF r.err THEN [threw |-> TRUE, writes |-> ws, encoded |-> <<>>, planned |-> <<>>]
     ELSE [threw |-> IF planned = <<>> THEN FALSE ELSE pushed.threw,
           writes |-> IF planned = <<>> THEN ws ELSE pushed.writes,
           encoded |-> <<[fields |-> r.fields, mask |-> r.c.mask,
                          transforms |-> r.c.transforms]>>,
           planned |-> planned]

UpdateTypeOfMergeAsSet(op) ==
  CASE op = "create" -> "create"
    [] op = "set" -> "set"
    [] op = "merge" -> "set"
    [] op = "update" -> "update"

\* create, set(ref, data), set(ref, data, {merge: true}) and update pick the UpdateType.
UpdateTypeOf(op) ==
  CASE op = "create" -> "create"
    [] op = "set" -> "set"
    [] op = "merge" -> "update"
    [] op = "update" -> "update"

DeleteCallNoPrecondition(ws, isFrozen, qualifiedPath, precondition) ==
  LET planned == <<[delete |-> qualifiedPath, currentDocument |-> <<>>]>>
      pushed == Push(ws, isFrozen, planned[1])
  IN [threw |-> pushed.threw, writes |-> pushed.writes, planned |-> planned]

\* delete(ref, precondition) on a batch holding ws
DeleteCall(ws, isFrozen, qualifiedPath, precondition) ==
  LET planned == <<[delete |-> qualifiedPath, currentDocument |-> precondition]>>
      pushed == Push(ws, isFrozen, planned[1])
  IN [threw |-> pushed.threw, writes |-> pushed.writes, planned |-> planned]

\* The request commit hands to firestore.request
CommitRequest(ws) == [method |-> "POST", path |-> ":batchWrite", body |-> [writes |-> ws]]

\* result => result.updateTime && new Date(result.updateTime) || undefined
MapResult(result) ==
  IF result.updateTime # <<>> THEN NewDate(result.updateTime[1]) ELSE NUndefined

MapResultsDropAbsent(writeResults) ==
  SelectSeq([i \in 1..Len(writeResults) |-> MapResult(writeResults[i])],
            LAMBDA d : d.k = "Date")

\* response.writeResults.map(...)
MapResults(writeResults) == [i \in 1..Len(writeResults) |-> MapResult(writeResults[i])]

\* What the promise of commit settles to once firestore.request has settled to
\* response: it rejects with the error of the request, or with the TypeError of
\* reading map of undefined when the body has no writeResults, and resolves to the
\* mapped results otherwise.
CommitResult(response) ==
  CASE response.k = "rejected" ->
         [state |-> "rejected", error |-> response.error, result |-> <<>>]
    [] response.k = "json" /\ "writeResults" \notin DOMAIN response.body ->
         [state |-> "rejected", error |-> [name |-> "TypeError"], result |-> <<>>]
    [] OTHER ->
         [state |-> "resolved", error |-> [name |-> ""],
          result |-> MapResults(response.body.writeResults)]

(* ------------------------------ inputs ------------------------------- *)

Variants == {"skip", "retract"}

\* ref.qualifiedPath of the document reference the calls are given
Refs == {"projects/p/databases/(default)/documents/c/d"}

Ops == {"create", "set", "merge", "update"}

Preconditions == {<<>>, <<[exists |-> TRUE]>>}

Obj1(k1, v1) == NObj(<< <<k1, v1>> >>)

Obj2(k1, v1, k2, v2) == NObj(<< <<k1, v1>>, <<k2, v2>> >>)

\* The input objects of the calls made on one batch.
BatchInputs == { NObj(<<>>), Obj1("a", NNum(1)), Obj1("a", increment(5)) }

\* new UpdateCollector() and encode(data, collector) for the inputs of one batch
Encoded ==
  [variant \in Variants |->
     [data \in BatchInputs |-> encode(data, UpdateCollector(variant))]]

FieldNames == {"a", "b", "a.b"}

FieldValues ==
  { NNull, NNum(1), NStr("x"), NUndefined,
    increment(5), serverTimestamp, arrayUnion(<<NNum(1)>>),
    NArr(<<>>), NArr(<<NNum(1)>>), NArr(<<increment(5)>>),
    NArr(<<Obj1("b", increment(5)), Obj1("b", NNum(1))>>),
    NObj(<<>>), Obj1("b", NNum(1)), Obj1("b", increment(5)),
    Obj1("b", Obj1("c", NNum(2))), Obj1("b", NArr(<<NNum(1)>>)) }

Timestamps == {Timestamp(2000, 5)}

\* What the service reports for one write: a WriteResult with or without updateTime,
\* and its Status (code 0 is OK; a failed write has no updateTime).
WriteOutcomes ==
  {[result |-> [updateTime |-> <<t>>], status |-> [code |-> 0]] : t \in Timestamps}
    \cup {[result |-> [updateTime |-> <<>>], status |-> [code |-> 0]],
          [result |-> [updateTime |-> <<>>], status |-> [code |-> 5]]}

\* The error body the service answers a request it rejects with
ErrorBody == [error |-> [code |-> 400, status |-> "INVALID_ARGUMENT"]]

\* What firestore.request settles to for a request of n writes: it rejects (fetch or
\* response.json() failed), or it resolves to the parsed body, which is the
\* service's error body or a BatchWriteResponse with one result and one status per
\* write.
Responses(n) ==
  {[k |-> "rejected", error |-> [name |-> "FetchError"]],
   [k |-> "json", body |-> ErrorBody]}
    \cup {[k |-> "json",
           body |-> [writeResults |-> [i \in 1..n |-> o[i].result],
                     status |-> [i \in 1..n |-> o[i].status]]] :
            o \in [1..n -> WriteOutcomes]}

\* The objects of n fields with distinct names
ObjectsOf(n) ==
  { NObj([i \in 1..n |-> <<ks[i], vs[i]>>]) :
      ks \in {f \in [1..n -> FieldNames] : \A i, j \in 1..n : f[i] = f[j] => i = j},
      vs \in [1..n -> FieldValues] }

RECURSIVE ObjectsUpTo(_)
ObjectsUpTo(n) == IF n = 0 THEN ObjectsOf(0) ELSE ObjectsOf(n) \cup ObjectsUpTo(n - 1)

\* The input objects of a single planning call.
PlanInputs == ObjectsUpTo(MaxFields)

(* -------------------------- inputs of the codec ---------------------- *)

ByteValues == {0, 65, 128, 169, 195, 255}

RECURSIVE BytesUpTo(_)
BytesUpTo(n) == IF n = 0 THEN {<<>>} ELSE [1..n -> ByteValues] \cup BytesUpTo(n - 1)

\* { latitude: 1.5, longitude: -2.5 }
GeoPoint == Obj2("latitude", NHalf(3), "longitude", NHalf(-5))

\* 2^53, the first integer that is not safe
TwoTo53 == NBig(1, 9007199, 254740992)

NumberInputs ==
  { NNum(0), NNum(1), NNum(-7), MaxSafeInteger, MinSafeInteger, TwoTo53,
    NBig(-1, 9007199, 254740992), NBig(1, 9007199, 254740994), NHalf(3), NHalf(-5),
    NSpecial("-0"), NSpecial("NaN"), NSpecial("Infinity"), NSpecial("-Infinity") }

ScalarInputs ==
  { NNull, NBool(TRUE), NBool(FALSE), NStr(""), NStr("x"), NDate(0), NDate(1500),
    NRef("c/d"), GeoPoint, NUint8Array(<<65>>), NFunction, NSymbol, NBigInt(5),
    NUndefined }
    \cup NumberInputs \cup {NBytes(bytes) : bytes \in BytesUpTo(MaxBytes)}

\* The values held by the arrays and the maps
ElementInputs ==
  { NNull, NNum(1), NStr("x"), NUndefined, NFunction, NBytes(<<128>>), NDate(1500),
    Obj1("b", NNum(1)), Obj2("b", NNum(1), "a", NNum(2)), NArr(<<NNum(1)>>) }

MapKeys == {"a", "b", "9", "10"}

\* The properties of the object built by setting keys[i] to values[i] in turn
RECURSIVE Assigned(_, _, _)
Assigned(keys, values, n) ==
  IF n = 0 THEN <<>> ELSE Assign(Assigned(keys, values, n - 1), keys[n], values[n])

\* The entry lists of the objects of n properties with names of MapKeys and values
\* of the set values, in the enumeration order of a plain object
EntriesOf(n, values) ==
  { Assigned(ks, vs, n) :
      ks \in {f \in [1..n -> MapKeys] : \A i, j \in 1..n : f[i] = f[j] => i = j},
      vs \in [1..n -> values] }

RECURSIVE EntriesUpTo(_, _)
EntriesUpTo(n, values) ==
  IF n = 0 THEN {<<>>} ELSE EntriesOf(n, values) \cup EntriesUpTo(n - 1, values)

RECURSIVE SeqsUpTo(_, _)
SeqsUpTo(n, values) ==
  IF n = 0 THEN {<<>>} ELSE [1..n -> values] \cup SeqsUpTo(n - 1, values)

\* The native values encodeValue is given
NativeInputs ==
  ScalarInputs
    \cup {NArr(elems) : elems \in SeqsUpTo(MaxElems, ElementInputs)}
    \cup {NObj(entries) : entries \in EntriesUpTo(MaxElems, ElementInputs)}

WireScalars ==
  { nullValue, booleanValue(TRUE), booleanValue(FALSE),
    integerValue(<<"1">>), integerValue(<<"-", "7">>),
    integerValue(StringOfNumber(MaxSafeInteger)), integerValue(StringOfNumber(TwoTo53)),
    doubleValue(NHalf(3)), doubleValue(NNum(3)), doubleValue(NSpecial("-0")),
    doubleValue(Text(<<"N", "a", "N">>)),
    timestampValue(Timestamp(1500, 0)), timestampValue(Timestamp(2000, 5)),
    stringValue(""), stringValue("x"),
    bytesValue(Base64(<<65>>)), bytesValue(Base64(<<233>>)),
    referenceValue(NStr(BasePath \o "/c/d")),
    referenceValue(NStr("projects/q/databases/(default)/documents/c/d")),
    geoPointValue(GeoPoint) }

\* The values held by the arrays and the maps of the wire
WireElements ==
  { nullValue, integerValue(<<"1">>), stringValue("x"), doubleValue(NHalf(3)),
    mapValue(<<>>), arrayValue(<<integerValue(<<"1">>)>>),
    mapValue(<< <<"b", integerValue(<<"1">>)>>, <<"a", stringValue("x")>> >>),
    [k |-> "mapValue"] }

\* The field maps of the wire
WireFields == EntriesUpTo(MaxElems, WireElements)

\* Value objects with no key, with two keys, with a key that is no kind, and array
\* and map values without their values and fields
OddValues ==
  { ValueObject(<<>>), [k |-> "fooValue"], [k |-> "arrayValue"], [k |-> "mapValue"] }
    \cup { ValueObject(<<p[1], p[2]>>) :
             p \in { q \in {nullValue, integerValue(<<"1">>), stringValue("x")}
                            \X {nullValue, integerValue(<<"1">>), stringValue("x")} :
                        q[1].k # q[2].k } }

\* The value objects decodeValue is given
WireInputs ==
  WireScalars \cup OddValues
    \cup {arrayValue(values) : values \in SeqsUpTo(MaxElems, WireElements)}
    \cup {mapValue(fields) : fields \in WireFields}

\* An api.Document: fields is <<>> when null and <<the field map>> otherwise
Document(fields) == [name |-> BasePath \o "/c/d", fields |-> fields]

WireOne == integerValue(<<"1">>)

\* The documents the snapshots wrap
Documents ==
  { Document(<<>>),
    Document(<< <<>> >>),
    Document(<< << <<"a", WireOne>> >> >>),
    Document(<< << <<"a.b", WireOne>> >> >>),
    Document(<< << <<"a", [k |-> "mapValue"]>> >> >>),
    Document(<< << <<"a", mapValue(<< <<"b", WireOne>> >>)>>, <<"b", stringValue("x")>> >> >>),
    Document(<< << <<"a", mapValue(<< <<"b", mapValue(<< <<"c", WireOne>> >>)>> >>)>> >> >>),
    Document(<< << <<"a", arrayValue(<<WireOne>>)>>, <<"c", nullValue>> >> >>) }

\* field.split('.') of the field paths get is given
FieldPaths == SeqsUpTo(MaxPath, {"a", "b", "c"}) \ {<<>>}

(* ------------------------- inputs of batchGet ------------------------ *)

\* The document references batchGet is given
DocRefs == {NRef("c/d"), NRef("c/e")}

RefSeqs == SeqsUpTo(MaxRefs, DocRefs)

\* What the service may report for the document of a reference: the document with
\* a field, the document without fields, or that it is missing
ResultsFor(ref) ==
  UNION { { Found([name |-> ReferencePath(ref), fields |-> << << <<"a", WireOne>> >> >>], t),
            Found([name |-> ReferencePath(ref), fields |-> <<>>], t),
            Missing(ReferencePath(ref), t) } : t \in Timestamps }

\* The answers of the service to a request for refs: one result for each document
\* requested, in any order
BatchGetResponses(refs) ==
  LET asked == {refs[i] : i \in 1..Len(refs)}
      results == UNION {ResultsFor(ref) : ref \in asked}
  IN { response \in [1..Cardinality(asked) -> results] :
         {ResultKey(response[i]) : i \in 1..Len(response)}
           = {<<ReferencePath(ref)>> : ref \in asked} }

(* --------------------------- the state machine ----------------------- *)

NoCall ==
  [op |-> "none", ref |-> "", data |-> <<>>, threw |-> FALSE, before |-> <<>>,
   wasFrozen |-> FALSE, sentBefore |-> 0, encoded |-> <<>>, planned |-> <<>>,
   precondition |-> <<>>]

\* The promise of a commit whose request has not been answered yet
Pending == [state |-> "pending"]

NoCodecCall == [fn |-> "none", arg |-> <<>>, out |-> <<>>, origin |-> <<>>]

Init ==
  /\ build \in Variants
  /\ writes = <<>>
  /\ frozen = FALSE
  /\ requests = <<>>
  /\ last = NoCall
  /\ log = <<>>
  /\ commits = <<>>
  /\ call = NoCodecCall
  /\ token = <<>>
  /\ tokenExp = <<>>
  /\ clock = 0
  /\ minting = <<>>
  /\ issued = <<>>

\* batch.create / set / set with merge / update (ref, data)
Update(op, ref, data) ==
  /\ frozen \/ Len(writes) < MaxWrites
  /\ \E r \in {UpdateCall(writes, frozen, Encoded[build][data], ref, UpdateTypeOf(op))} :
        /\ writes' = r.writes
        /\ log' = IF r.threw THEN log ELSE log \o r.planned
        /\ last' = [op |-> op, ref |-> ref, data |-> <<data>>, threw |-> r.threw,
                    before |-> writes, wasFrozen |-> frozen, sentBefore |-> Len(requests),
                    encoded |-> r.encoded, planned |-> r.planned,
                    precondition |-> <<>>]
  /\ UNCHANGED <<build, frozen, requests, commits, call>>
  /\ UNCHANGED tokenVars

\* batch.delete(ref, precondition)
Delete(ref, precondition) ==
  /\ frozen \/ Len(writes) < MaxWrites
  /\ \E r \in {DeleteCall(writes, frozen, ref, precondition)} :
        /\ writes' = r.writes
        /\ log' = IF r.threw THEN log ELSE log \o r.planned
        /\ last' = [op |-> "delete", ref |-> ref, data |-> <<>>, threw |-> r.threw,
                    before |-> writes, wasFrozen |-> frozen, sentBefore |-> Len(requests),
                    encoded |-> <<>>, planned |-> r.planned,
                    precondition |-> precondition]
  /\ UNCHANGED <<build, frozen, requests, commits, call>>
  /\ UNCHANGED tokenVars

\* batch.commit(), up to the request it sends
Commit ==
  /\ Len(requests) < MaxCommits
  /\ frozen' = TRUE
  /\ requests' = Append(requests, CommitRequest(writes))
  /\ commits' = Append(commits, Pending)
  /\ last' = [op |-> "commit", ref |-> "", data |-> <<>>, threw |-> FALSE,
              before |-> writes, wasFrozen |-> frozen, sentBefore |-> Len(requests),
              encoded |-> <<>>, planned |-> <<>>, precondition |-> <<>>]
  /\ UNCHANGED <<build, writes, log, call>>
  /\ UNCHANGED tokenVars

Next ==
  \/ \E op \in Ops, ref \in Refs, data \in BatchInputs : Update(op, ref, data)
  \/ \E ref \in Refs, precondition \in Preconditions : Delete(ref, precondition)
  \/ Commit

Spec == Init /\ [][Next]_vars

\* The continuation of commit number i once firestore.request has settled to response
Respond(i, response) ==
  /\ commits[i].state = "pending"
  /\ \E r \in {CommitResult(response)} :
        /\ commits' = [commits EXCEPT ![i] = [state |-> r.state]]
        /\ call' = [fn |-> "commit", arg |-> <<requests[i]>>, out |-> <<r>>,
                    origin |-> <<response>>]
  /\ UNCHANGED <<build, writes, frozen, requests, last, log>>
  /\ UNCHANGED tokenVars

\* A batch from its calls to the settling of its commits
NextCommit ==
  \/ \E ref \in Refs : Update("set", ref, Obj1("a", NNum(1)))
  \/ \E ref \in Refs : Delete(ref, <<>>)
  \/ Commit
  \/ \E i \in 1..Len(commits) :
        \E response \in Responses(Len(requests[i].body.writes)) : Respond(i, response)

SpecCommit == Init /\ [][NextCommit]_vars

\* encodeValue(value) without a collector; origin is <<>>, or <<the value object>>
\* this value was decoded from
EncodeValue(value, origin) ==
  /\ call' = [fn |-> "encodeValue", arg |-> <<value>>,
              out |-> <<encodeValue(value, NoCollector)>>, origin |-> origin]
  /\ UNCHANGED <<build, writes, frozen, requests, last, log, commits>>
  /\ UNCHANGED tokenVars

\* decodeValue(firestore, valueObj); origin is <<>>, or <<the native value>> this
\* value object was encoded from
DecodeValue(valueObj, origin) ==
  /\ call' = [fn |-> "decodeValue", arg |-> <<valueObj>>,
              out |-> <<decodeValue(valueObj)>>, origin |-> origin]
  /\ UNCHANGED <<build, writes, frozen, requests, last, log, commits>>
  /\ UNCHANGED tokenVars

\* decode(firestore, fields)
Decode(fields) ==
  /\ call' = [fn |-> "decode", arg |-> fields, out |-> <<decode(fields)>>,
              origin |-> <<>>]
  /\ UNCHANGED <<build, writes, frozen, requests, last, log, commits>>
  /\ UNCHANGED tokenVars

\* new DocumentSnapshot(ref, doc).get(field), components being field.split('.')
Get(doc, components) ==
  /\ call' = [fn |-> "get", arg |-> <<doc, components>>,
              out |-> <<get(doc, components)>>, origin |-> <<>>]
  /\ UNCHANGED <<build, writes, frozen, requests, last, log, commits>>
  /\ UNCHANGED tokenVars

\* firestore.batchGet(refs), the request resolving to response
BatchGet(refs, response) ==
  /\ call' = [fn |-> "batchGet", arg |-> <<refs, response>>,
              out |-> <<batchGet(refs, response)>>, origin |-> <<>>]
  /\ UNCHANGED <<build, writes, frozen, requests, last, log, commits>>
  /\ UNCHANGED tokenVars

\* Reading exists and data() of snapshot number i of those the last batchGet returned;
\* origin is the reference it was requested with and the answer of the service
ReadSnapshot(i) ==
  /\ call' = [fn |-> "snapshot", arg |-> <<call.out[1].val[i]>>,
              out |-> <<[exists |-> exists(call.out[1].val[i]),
                         data |-> SnapshotData(call.out[1].val[i])]>>,
              origin |-> <<call.arg[1][i], call.arg[2]>>]
  /\ UNCHANGED <<build, writes, frozen, requests, last, log, commits>>
  /\ UNCHANGED tokenVars

\* The last call returned, and its result may be handed to the inverse function
Returns(fn) == call.fn = fn /\ call.origin = <<>> /\ ~call.out[1].err

\* The calls of the codec and of a snapshot: one call on an input, and for
\* encodeValue and decodeValue the inverse call on what that call returned
NextCodec ==
  \/ call.fn = "none" /\ \E value \in NativeInputs : EncodeValue(value, <<>>)
  \/ call.fn = "none" /\ \E valueObj \in WireInputs : DecodeValue(valueObj, <<>>)
  \/ Returns("encodeValue") /\ DecodeValue(call.out[1].val, call.arg)
  \/ Returns("decodeValue") /\ EncodeValue(call.out[1].val, call.arg)
  \/ call.fn = "none" /\ \E fields \in {<<>>} \cup {<<f>> : f \in WireFields} : Decode(fields)
  \/ call.fn = "none" /\ \E doc \in Documents, components \in FieldPaths :
        Get(doc, components)
  \/ call.fn = "none" /\ \E refs \in RefSeqs :
        \E response \in BatchGetResponses(refs) : BatchGet(refs, response)
  \/ call.fn = "batchGet" /\ ~call.out[1].err
       /\ \E i \in 1..Len(call.out[1].val) : ReadSnapshot(i)

SpecCodec == Init /\ [][NextCodec]_vars

\* The uids custom tokens are asked for
Uids == {"alice", "bob"}

\* getToken(claims) of the getter getTokenGetter(settings, 'auth') returned, up to
\* the await of createToken: a token still good is returned as it is, else
\* createToken is called with the claims of this call and either throws, which
\* rejects the call, or leaves the call waiting for the signature.
GetToken(claims) ==
  /\ Len(issued) + Len(minting) < MaxCalls
  /\ IF NeedsToken(tokenExp, clock)
       THEN \E r \in {createToken(ServiceAccount, "auth", claims, clock)} :
              IF r.err
                THEN /\ issued' = Append(issued, [claims |-> claims, state |-> "rejected",
                                                  error |-> r.error, token |-> <<>>])
                     /\ UNCHANGED minting
                ELSE /\ minting' = Append(minting, [claims |-> claims, jwt |-> r.jwt[1]])
                     /\ UNCHANGED issued
       ELSE /\ issued' = Append(issued, [claims |-> claims, state |-> "resolved",
                                         error |-> "", token |-> token])
            /\ UNCHANGED minting
  /\ UNCHANGED <<token, tokenExp, clock>>
  /\ UNCHANGED batchVars

\* auth.createCustomToken(uid)
CreateCustomToken(uid) == GetToken(<<[uid |-> <<uid>>]>>)

\* this.getToken() in FirebaseService.request, for the Authorization header
RequestToken == GetToken(<<>>)

\* The rest of getToken for waiting call number i, createToken having resolved: the
\* token and its expiry are stored and the token is returned
Signed(i) ==
  /\ token' = <<minting[i].jwt>>
  /\ tokenExp' = <<clock + exp>>
  /\ issued' = Append(issued, [claims |-> minting[i].claims, state |-> "resolved",
                               error |-> "", token |-> <<minting[i].jwt>>])
  /\ minting' = SubSeq(minting, 1, i - 1) \o SubSeq(minting, i + 1, Len(minting))
  /\ UNCHANGED clock
  /\ UNCHANGED batchVars

\* Half the lifetime of a token goes by
Tick ==
  /\ clock < MaxTicks * (exp \div 2)
  /\ clock' = clock + (exp \div 2)
  /\ UNCHANGED <<token, tokenExp, minting, issued>>
  /\ UNCHANGED batchVars

\* One token getter, shared by createCustomToken and by the requests of the service
NextToken ==
  \/ \E uid \in Uids : CreateCustomToken(uid)
  \/ RequestToken
  \/ \E i \in 1..Len(minting) : Signed(i)
  \/ Tick

SpecToken == Init /\ [][NextToken]_vars

\* The first planning call on a batch firestore.batch() has just made
BatchUpdate(op, ref, data) ==
  /\ \E r \in {UpdateCall(writes, frozen, encode(data, UpdateCollector(build)), ref,
                            UpdateTypeOf(op))} :
        /\ writes' = r.writes
        /\ log' = IF r.threw THEN log ELSE log \o r.planned
        /\ last' = [op |-> op, ref |-> ref, data |-> <<data>>, threw |-> r.threw,
                    before |-> writes, wasFrozen |-> frozen, sentBefore |-> Len(requests),
                    encoded |-> r.encoded, planned |-> r.planned,
                    precondition |-> <<>>]
  /\ UNCHANGED <<build, frozen, requests, commits, call>>
  /\ UNCHANGED tokenVars

NextPlan ==
  /\ last.op = "none"
  /\ \E op \in Ops, ref \in Refs, data \in PlanInputs : BatchUpdate(op, ref, data)

SpecPlan == Init /\ [][NextPlan]_vars

(* ------------------------- what the claims read ---------------------- *)

ToSet(seq) == {seq[i] : i \in 1..Len(seq)}

Count(seq, x) == Cardinality({i \in 1..Len(seq) : seq[i] = x})

IsUpdateCall == last.op \in Ops

IsMergeOrUpdate == last.op \in {"merge", "update"}

\* encode returned: the collector's mask and transforms and the encoded fields
Encoded1 == last.encoded[1]

MaskPaths == ToSet(Encoded1.mask)

TransformPaths == {Encoded1.transforms[i].fieldPath : i \in 1..Len(Encoded1.transforms)}

Data == last.data[1]

\* The top-level fields of the input whose value is of kind k
FieldsOfKind(kind) == {e[1] : e \in {x \in ToSet(Data.entries) : x[2].k = kind}}

IsUpdateWrite(w) == DOMAIN w = {"update", "updateMask", "updateTransforms", "currentDocument"}

IsTransformWrite(w) == DOMAIN w = {"transform"}

IsDeleteWrite(w) == DOMAIN w = {"delete", "currentDocument"}

\* The dot-joined paths of the scalar, array, undefined and sentinel fields of an
\* object, reached by descending through its map-valued fields.
RECURSIVE LeafPaths(_, _)
LeafPaths(entries, prefix) ==
  UNION { IF e[2].k = "object"
            THEN LeafPaths(e[2].entries, Append(prefix, e[1]))
            ELSE {Join(Append(prefix, e[1]))} : e \in ToSet(entries) }

(* ------------------------------- claims ------------------------------ *)

\* C1: once the top-level encode of a planning call has returned, no path of the
\* collector's mask equals the fieldPath of an entry of its transform list.
C1_MaskAndTransformsShareNoPath ==
  (IsUpdateCall /\ last.encoded # <<>>) => MaskPaths \cap TransformPaths = {}

\* C2: after encode with a collector the mask paths and the transform paths together
\* are exactly the dot-joined paths of the input's scalar, array, undefined and
\* sentinel fields reached through map-valued fields.
C2_PathsAreExactlyTheLeafPaths ==
  (IsUpdateCall /\ last.encoded # <<>>) =>
     MaskPaths \cup TransformPaths = LeafPaths(Data.entries, <<>>)

\* C3: when a field's value is a sentinel, encode with a collector completes without
\* error, appends exactly one transform for that field's path, and the encoded
\* fields have no entry for that field.
C3_SentinelBecomesOneTransformAndNoField ==
  (IsUpdateCall /\ FieldsOfKind("FieldValue") # {}) =>
     /\ last.encoded # <<>>
     /\ \A f \in FieldsOfKind("FieldValue") :
          /\ Cardinality({i \in 1..Len(Encoded1.transforms) :
                            Encoded1.transforms[i].fieldPath = f}) = 1
          /\ f \notin Keys(Encoded1.fields)

\* C4: an update or merge set whose input has an array-valued field appends a write
\* whose update mask holds that field's path exactly once.
C4_ArrayFieldIsMaskedOnce ==
  (IsMergeOrUpdate /\ ~last.wasFrozen /\ FieldsOfKind("array") # {}
     /\ FieldsOfKind("FieldValue") = {}) =>
     /\ last.planned # <<>>
     /\ writes = Append(last.before, last.planned[1])
     /\ IsUpdateWrite(last.planned[1])
     /\ last.planned[1].updateMask # <<>>
     /\ \A f \in FieldsOfKind("array") :
          Count(last.planned[1].updateMask[1].fieldPaths, f) = 1

\* The transform-only write of a document
TransformOnly(ref, transforms) ==
  [transform |-> [document |-> ref, fieldTransforms |-> transforms]]

\* C5: an update or merge set that plans an empty mask and a non-empty transform
\* list appends exactly one write, of the transform-only form; for {a: increment(5)}
\* the transform list is [{fieldPath: "a", increment: {integerValue: "5"}}].
C5_TransformOnlyWrite ==
  /\ (IsMergeOrUpdate /\ ~last.wasFrozen /\ last.encoded # <<>>
        /\ Encoded1.mask = <<>> /\ Encoded1.transforms # <<>>) =>
       writes = Append(last.before, TransformOnly(last.ref, Encoded1.transforms))
  /\ (IsMergeOrUpdate /\ ~last.wasFrozen /\ Data = Obj1("a", increment(5))) =>
       /\ last.encoded # <<>>
       /\ Encoded1.mask = <<>>
       /\ Encoded1.transforms =
            <<[fieldPath |-> "a", transform |-> "increment",
               value |-> integerValue(<<"5">>)]>>
       /\ writes = Append(last.before, TransformOnly(last.ref, Encoded1.transforms))

\* An update or merge set call that planned an empty mask and no transform
IsNoOpCall ==
  /\ IsMergeOrUpdate
  /\ last.encoded # <<>>
  /\ Encoded1.mask = <<>>
  /\ Encoded1.transforms = <<>>

\* C6: an update or merge set that plans an empty mask and an empty transform list
\* returns without error and appends no write: the batch is as before the call, and
\* the request a commit sends holds the batch's writes and nothing else.
C6_NoOpAppendsNothing ==
  /\ IsNoOpCall =>
       /\ ~last.threw
       /\ writes = last.before
       /\ length(writes) = length(last.before)
       /\ writes = log
  /\ last.op = "commit" =>
       /\ Len(requests) = last.sentBefore + 1
       /\ requests[Len(requests)].body.writes = log

C6_Witness ==
  /\ IsNoOpCall
  /\ Data = NObj(<<>>)
  /\ Len(last.before) = 1
  /\ ~last.wasFrozen

\* The names of the input's fields that hold a value, in insertion order
RECURSIVE DefinedKeys(_)
DefinedKeys(entries) ==
  IF entries = <<>> THEN <<>>
  ELSE (IF entries[1][2].k = "undefined" THEN <<>> ELSE <<entries[1][1]>>)
         \o DefinedKeys(Tail(entries))

\* C7: the write appended by create or by set without merge is a literal update
\* write carrying all encoded fields and no update mask.
C7_CreateAndSetAttachNoMask ==
  (last.op \in {"create", "set"} /\ ~last.threw) =>
     /\ last.planned # <<>>
     /\ writes = Append(last.before, last.planned[1])
     /\ IsUpdateWrite(last.planned[1])
     /\ last.planned[1].updateMask = <<>>
     /\ last.planned[1].update.fields = Encoded1.fields
     /\ [i \in 1..Len(Encoded1.fields) |-> Encoded1.fields[i][1]] = DefinedKeys(Data.entries)

C7_Witness ==
  /\ last.op = "set"
  /\ ~last.threw
  /\ Data = Obj2("a", NNum(1), "b", Obj1("b", NNum(1)))
  /\ Encoded1.mask = <<"a", "b.b">>
  /\ Len(writes) = 1

\* C8: every write appended by create carries the precondition exists = false, and
\* the writes appended by set or update carry no precondition.
C8_CreateRequiresAbsentDocument ==
  (IsUpdateCall /\ last.planned # <<>> /\ IsUpdateWrite(last.planned[1])) =>
     last.planned[1].currentDocument =
       IF last.op = "create" THEN <<[exists |-> FALSE]>> ELSE <<>>

\* C9: after commit every later create, set, update or delete on the batch fails
\* with an error, and the write sequence stays as it was when commit was called.
C9_CallsAfterCommitFail ==
  (last.wasFrozen /\ last.op \in Ops \cup {"delete"}) =>
     /\ last.threw
     /\ writes = last.before

\* C10: before commit each call appends at most one write, the writes are held in
\* the order of the calls that produced them, length is the number of writes
\* appended, and commit sends exactly that sequence in one request.
C10_WritesKeepCallOrder ==
  /\ writes = log
  /\ length(writes) = Len(log)
  /\ (last.op \in Ops \cup {"delete"} /\ ~last.wasFrozen) =>
       /\ Len(last.planned) <= 1
       /\ writes = last.before \o last.planned
  /\ last.op = "commit" =>
       /\ Len(requests) = last.sentBefore + 1
       /\ requests[Len(requests)] = CommitRequest(log)

C10_Witness ==
  /\ last.op = "commit"
  /\ Len(writes) = 2
  /\ IsUpdateWrite(writes[1])
  /\ IsDeleteWrite(writes[2])
  /\ Len(requests) = 1

(* --------------------------- commit results -------------------------- *)

IsSettledCommit == call.fn = "commit"

\* The request of the settled commit, what firestore.request gave and what the promise
\* of commit settled to
Sent == call.arg[1].body.writes

Response == call.origin[1]

Settled == call.out[1]

HasResults == Response.k = "json" /\ "writeResults" \in DOMAIN Response.body

\* C11: when the service answers with its per-write results, commit resolves to a
\* sequence with one element per submitted write, element i being the Date of write
\* i's updateTime when the service returned one and undefined otherwise.
C11_ResultsFollowSubmissionOrder ==
  (IsSettledCommit /\ HasResults) =>
     /\ Settled.state = "resolved"
     /\ Len(Settled.result) = Len(Sent)
     /\ \A i \in 1..Len(Sent) :
          LET updateTime == Response.body.writeResults[i].updateTime
          IN Settled.result[i] =
               IF updateTime = <<>> THEN NUndefined ELSE NDate(updateTime[1].ms)

C11_Witness ==
  /\ IsSettledCommit
  /\ Len(Sent) = 2
  /\ IsDeleteWrite(Sent[1])
  /\ IsUpdateWrite(Sent[2])
  /\ Settled.state = "resolved"
  /\ Settled.result = <<NUndefined, NDate(2000)>>

\* C12: a commit the service rejects fails with the service's error, and a write
\* whose status is a failure is not reported with the same outcome as a write that
\* succeeded without a timestamp.
C12_FailuresReachTheCaller ==
  IsSettledCommit =>
     /\ Response.k = "rejected" =>
          Settled.state = "rejected" /\ Settled.error = Response.error
     /\ (Response.k = "json" /\ "error" \in DOMAIN Response.body) =>
          Settled.state = "rejected" /\ Settled.error = Response.body.error
     /\ HasResults =>
          \A i, j \in 1..Len(Sent) :
             (/\ Response.body.status[i].code # 0
              /\ Response.body.status[j].code = 0
              /\ Response.body.writeResults[j].updateTime = <<>>) =>
               ~(Settled.state = "resolved" /\ Settled.result[i] = Settled.result[j])

(* ------------------------------ the codec ---------------------------- *)

\* A first call of fn on an input, and a call of fn on what the inverse returned
IsCall(fn) == call.fn = fn /\ call.origin = <<>>

IsRoundTrip(fn) == call.fn = fn /\ call.origin # <<>>

Arg == call.arg[1]

Out == call.out[1]

Origin == call.origin[1]

\* The entries of a map in ascending order of their names
RECURSIVE ByName(_)
ByName(entries) ==
  IF Len(entries) = 0 THEN <<>>
  ELSE LET rest == ByName(Tail(entries))
       IN SelectSeq(rest, LAMBDA e : Rank(e[1]) < Rank(entries[1][1]))
            \o <<entries[1]>>
            \o SelectSeq(rest, LAMBDA e : Rank(e[1]) >= Rank(entries[1][1]))

\* A native value with the properties of its maps put in ascending order of their
\* names, so that two values are equal when they differ in property order only
RECURSIVE Ordered(_)
Ordered(v) ==
  CASE v.k = "array" -> NArr([i \in 1..Len(v.elems) |-> Ordered(v.elems[i])])
    [] v.k = "object" ->
         NObj(ByName([i \in 1..Len(v.entries) |->
                        <<v.entries[i][1], Ordered(v.entries[i][2])>>]))
    [] OTHER -> v

\* The same for a value object of the wire
RECURSIVE OrderedWire(_)
OrderedWire(w) ==
  CASE w.k = "arrayValue" /\ "values" \in DOMAIN w ->
         arrayValue([i \in 1..Len(w.values) |-> OrderedWire(w.values[i])])
    [] w.k = "mapValue" /\ "fields" \in DOMAIN w ->
         mapValue(ByName([i \in 1..Len(w.fields) |->
                            <<w.fields[i][1], OrderedWire(w.fields[i][2])>>]))
    [] OTHER -> w

\* An integer of magnitude at most 2^53 - 1 (9007199254740991), negative zero apart
SafeInteger(v) ==
  /\ v.k = "number"
  /\ \/ "n" \in DOMAIN v
     \/ /\ "hi" \in DOMAIN v
        /\ v.hi < 9007199 \/ (v.hi = 9007199 /\ v.lo <= 254740991)

\* The supported native values: null, booleans, safe integers, strings, dates, byte
\* buffers, geo-points, references, and arrays and maps of these
RECURSIVE Supported(_)
Supported(v) ==
  CASE v.k \in {"null", "boolean", "string", "Date", "ArrayBuffer", "Reference"} -> TRUE
    [] v.k = "number" -> SafeInteger(v)
    [] v.k = "array" -> \A i \in 1..Len(v.elems) : Supported(v.elems[i])
    [] v.k = "object" ->
         \/ v = GeoPoint
         \/ \A i \in 1..Len(v.entries) : Supported(v.entries[i][2])
    [] OTHER -> FALSE

\* C13: for every supported native value v, encodeValue(v) returns and
\* decodeValue(encodeValue(v)) returns a value equal to v.
C13_DecodeInvertsEncode ==
  /\ (IsCall("encodeValue") /\ Supported(Arg)) => ~Out.err
  /\ (IsRoundTrip("decodeValue") /\ Supported(Origin)) =>
       ~Out.err /\ Ordered(Out.val) = Ordered(Origin)

Kinds ==
  { "nullValue", "booleanValue", "integerValue", "doubleValue", "timestampValue",
    "stringValue", "bytesValue", "referenceValue", "geoPointValue", "arrayValue",
    "mapValue" }

\* A value object in canonical form: one key, one of the eleven kinds, a doubleValue
\* carrying a number, an array its values and a map its fields, all canonical
RECURSIVE Canonical(_)
Canonical(w) ==
  CASE w.k \notin Kinds -> FALSE
    [] w.k = "doubleValue" -> "chars" \notin DOMAIN w.double
    [] w.k = "arrayValue" ->
         "values" \in DOMAIN w /\ \A i \in 1..Len(w.values) : Canonical(w.values[i])
    [] w.k = "mapValue" ->
         "fields" \in DOMAIN w /\ \A i \in 1..Len(w.fields) : Canonical(w.fields[i][2])
    [] OTHER -> TRUE

\* C14: for every value object w in canonical form, decodeValue(w) returns and
\* encodeValue(decodeValue(w)) returns a value object equal to w, of the same kind
\* and with a payload of the same type.
C14_EncodeInvertsDecode ==
  /\ (IsCall("decodeValue") /\ Canonical(Arg)) => ~Out.err
  /\ (IsRoundTrip("encodeValue") /\ Canonical(Origin)) =>
       ~Out.err /\ OrderedWire(Out.val) = OrderedWire(Origin)

\* C15: encodeValue of a binary buffer returns a bytesValue holding the base64 of its
\* bytes, whatever their values, and decoding that value gives a buffer of the same
\* bytes in the same order.
C15_BytesKeepEveryByte ==
  /\ (IsCall("encodeValue") /\ Arg.k = "ArrayBuffer") =>
       ~Out.err /\ Out.val = bytesValue(Base64(Arg.bytes))
  /\ (IsRoundTrip("decodeValue") /\ Origin.k = "ArrayBuffer") =>
       ~Out.err /\ Out.val = Origin

\* The text of an integer in base 10: an optional minus sign, then decimal digits
\* only, the first not a zero unless it is the only one
IsDecimal(chars) ==
  LET digits == IF Len(chars) > 0 /\ chars[1] = "-" THEN Tail(chars) ELSE chars
  IN /\ Len(digits) > 0
     /\ \A i \in 1..Len(digits) : IsDigit(digits[i])
     /\ Len(digits) > 1 => digits[1] # "0"

\* C16: encodeValue of a number returns an integerValue holding its base-10 string
\* exactly when the number is a safe integer and not negative zero, and a
\* doubleValue for every other number; an integer at either end of the safe range
\* decodes back to the same integer.
C16_SafeIntegersAreIntegerKind ==
  /\ (IsCall("encodeValue") /\ Arg.k = "number") =>
       /\ ~Out.err
       /\ Out.val.k = IF SafeInteger(Arg) THEN "integerValue" ELSE "doubleValue"
       /\ SafeInteger(Arg) =>
            IsDecimal(Out.val.digits) /\ parseInt(Out.val.digits) = Arg
       /\ Arg = MaxSafeInteger =>
            Out.val = integerValue(<<"9", "0", "0", "7", "1", "9", "9", "2", "5", "4",
                                     "7", "4", "0", "9", "9", "1">>)
  /\ (IsRoundTrip("decodeValue") /\ Origin \in {MaxSafeInteger, MinSafeInteger}) =>
       ~Out.err /\ Out.val = Origin

C16_Witness ==
  /\ IsRoundTrip("decodeValue")
  /\ Origin = MinSafeInteger
  /\ Arg.k = "integerValue"
  /\ Out.val = MinSafeInteger

\* The types of the values outside the supported set that encodeValue reaches in v,
\* in the order it reaches them: a function, a symbol, a big integer, and an
\* undefined element of an array (encode leaves out a property that is undefined)
RECURSIVE Unsupported(_)
Unsupported(v) ==
  CASE v.k \in {"function", "symbol", "bigint", "undefined"} -> <<v.k>>
    [] v.k = "array" /\ Len(v.elems) > 0 ->
         Unsupported(v.elems[1]) \o Unsupported(NArr(Tail(v.elems)))
    [] v.k = "object" /\ Len(v.entries) > 0 ->
         (IF v.entries[1][2].k = "undefined" THEN <<>> ELSE Unsupported(v.entries[1][2]))
           \o Unsupported(NObj(Tail(v.entries)))
    [] OTHER -> <<>>

\* C17: encodeValue of a value that holds a function, a symbol, a big integer or an
\* undefined array element throws the unsupported-type error naming the type of that
\* value, and returns nothing.
C17_UnsupportedTypeIsNamed ==
  (IsCall("encodeValue") /\ Arg.k # "undefined" /\ Unsupported(Arg) # <<>>) =>
     /\ Out.err
     /\ Out.error = "Unsupported value type: " \o Unsupported(Arg)[1]

\* The names of the properties of every map of a native value are enumerated in
\* ascending order
RECURSIVE KeysAscend(_)
KeysAscend(v) ==
  CASE v.k = "array" -> \A i \in 1..Len(v.elems) : KeysAscend(v.elems[i])
    [] v.k = "object" ->
         /\ \A i, j \in 1..Len(v.entries) :
              i < j => Rank(v.entries[i][1]) < Rank(v.entries[j][1])
         /\ \A i \in 1..Len(v.entries) : KeysAscend(v.entries[i][2])
    [] OTHER -> TRUE

\* The orders a sequence can be put in
Reorderings(seq) ==
  { [i \in 1..Len(seq) |-> seq[f[i]]] :
      f \in {g \in [1..Len(seq) -> 1..Len(seq)] :
               \A i, j \in 1..Len(seq) : g[i] = g[j] => i = j} }

\* C18: decode returns a structure whose keys are enumerated in sorted order at
\* every nesting level, and the same for the same entries in any order of the wire
\* map.
C18_DecodeSortsKeys ==
  IsCall("decode") =>
     /\ ~Out.err
     /\ KeysAscend(Out.val)
     /\ call.arg # <<>> =>
          \A fields \in Reorderings(Arg) : decode(<<fields>>) = Out

\* C19: decodeValue of a value object with no kind key, with several, or with a key
\* that is no kind either throws or returns null, and gives the same for the same
\* keys in any order.
C19_MalformedIsErrorOrNull ==
  (IsCall("decodeValue") /\ (Arg.k = "keys" \/ Arg.k \notin Kinds)) =>
     /\ Out.err \/ Out.val = NNull
     /\ Arg.k = "keys" =>
          \A parts \in Reorderings(Arg.parts) : decodeValue(ValueObject(parts)) = Out

\* The value object a field path leads to in a field map, descending through the
\* fields of map values: <<>> when a segment is absent, when a segment before the
\* last is not a map, or when there are no fields
RECURSIVE Descend(_, _)
Descend(fields, components) ==
  IF fields = <<>> \/ Field(fields[1], components[1]) = <<>> THEN <<>>
  ELSE LET next == Field(fields[1], components[1])[1]
       IN IF Len(components) = 1 THEN <<next>>
          ELSE IF next.k = "mapValue" /\ "fields" \in DOMAIN next
                 THEN Descend(<<next.fields>>, Tail(components))
                 ELSE <<>>

\* C20: get(path) returns the decoded value the path leads to through nested
\* mapValue.fields, and returns undefined without an error when a segment is absent,
\* when a segment before the last is not a map, or when the document has no fields.
C20_GetDescendsOrGivesUndefined ==
  call.fn = "get" =>
     LET found == Descend(call.arg[1].fields, call.arg[2])
     IN /\ ~Out.err
        /\ Out.val = IF found = <<>> THEN NUndefined ELSE decodeValue(found[1]).val

(* ------------------------- planning, call by call -------------------- *)

\* What the planning call last made gives when it is the first call on a batch that
\* firestore.batch() has just made: encode of its input with a collector of its own
AloneEncoded == encode(Data, UpdateCollector(build))

\* C21: the mask and the transform list of a planned write are those the input of the
\* call gives on a batch of its own, whatever was planned before, and the writes the
\* batch held before the call are still there, unchanged.
C21_PlanningReadsOnlyItsInput ==
  (IsUpdateCall /\ last.encoded # <<>>) =>
     /\ Encoded1.mask = AloneEncoded.c.mask
     /\ Encoded1.transforms = AloneEncoded.c.transforms
     /\ last.planned = PlanWrite(last.ref, AloneEncoded.fields, AloneEncoded.c,
                                 UpdateTypeOf(last.op))
     /\ Len(writes) >= Len(last.before)
     /\ SubSeq(writes, 1, Len(last.before)) = last.before

C21_Witness ==
  /\ last.op = "update"
  /\ ~last.threw
  /\ Data = Obj1("a", NNum(1))
  /\ Len(last.before) = 1
  /\ IsUpdateWrite(last.before[1])
  /\ last.before[1].updateMask = <<[fieldPaths |-> <<"a">>]>>
  /\ writes[2].updateMask = <<[fieldPaths |-> <<"a">>]>>

\* The paths of the fields that hold the sentinels of a value, in the order a
\* depth-first walk meets them: the entries of a map in insertion order, the elements
\* of an array in index order under the path of the field that holds the array.
RECURSIVE SentinelPaths(_, _), SentinelPathsOfEntries(_, _), SentinelPathsOfElements(_, _)
SentinelPaths(value, prefix) ==
  CASE value.k = "FieldValue" -> <<Join(prefix)>>
    [] value.k = "object" -> SentinelPathsOfEntries(value.entries, prefix)
    [] value.k = "array" -> SentinelPathsOfElements(value.elems, prefix)
    [] OTHER -> <<>>

SentinelPathsOfEntries(entries, prefix) ==
  IF entries = <<>> THEN <<>>
  ELSE SentinelPaths(entries[1][2], Append(prefix, entries[1][1]))
         \o SentinelPathsOfEntries(Tail(entries), prefix)

SentinelPathsOfElements(elems, prefix) ==
  IF elems = <<>> THEN <<>>
  ELSE SentinelPaths(elems[1], prefix) \o SentinelPathsOfElements(Tail(elems), prefix)

\* C22: once encode has returned, the transform list holds one entry per sentinel of
\* the input, each under the dot-joined path of the field that holds the sentinel, in
\* the order the fields are visited.
C22_OneTransformPerSentinelInVisitOrder ==
  (IsUpdateCall /\ last.encoded # <<>>) =>
     [i \in 1..Len(Encoded1.transforms) |-> Encoded1.transforms[i].fieldPath]
       = SentinelPaths(Data, <<>>)

C22_Witness ==
  /\ IsUpdateCall
  /\ last.encoded # <<>>
  /\ Data = Obj2("b", Obj1("b", increment(5)), "a", serverTimestamp)
  /\ Len(Encoded1.transforms) = 2
  /\ Encoded1.transforms[1].fieldPath = "b.b"
  /\ Encoded1.transforms[2].fieldPath = "a"

\* C23: the update mask of a write planned by update or by set with merge holds no
\* field path more than once.
C23_MaskHoldsNoPathTwice ==
  (IsMergeOrUpdate /\ last.planned # <<>> /\ IsUpdateWrite(last.planned[1])) =>
     \A p \in ToSet(last.planned[1].updateMask[1].fieldPaths) :
        Count(last.planned[1].updateMask[1].fieldPaths, p) = 1

\* What the call last made would have left had it been made as op on the same batch
\* with the same reference and input
MadeAs(op) ==
  UpdateCall(last.before, last.wasFrozen, encode(Data, UpdateCollector(build)), last.ref,
             UpdateTypeOf(op))

\* C24: set with the merge option and update, given the same reference and input on
\* the same batch, leave the same write sequence: both append the same write or both
\* append nothing, and one throws when the other does.
C24_MergeSetPlansAsUpdate ==
  IsMergeOrUpdate =>
     \A op \in {"merge", "update"} :
        /\ writes = MadeAs(op).writes
        /\ last.planned = MadeAs(op).planned
        /\ last.threw = MadeAs(op).threw

C24_Witness ==
  /\ last.op = "merge"
  /\ ~last.threw
  /\ Data = Obj1("a", NNum(1))
  /\ Len(last.before) = 1
  /\ Len(writes) = 2
  /\ writes[2].updateMask = <<[fieldPaths |-> <<"a">>]>>
  /\ writes = MadeAs("update").writes

\* C25: a delete call on a batch that has not been committed appends one write, which
\* holds the qualified path of the document and the precondition the caller gave
\* (none when left out) and nothing else, after the writes the batch held, unchanged.
C25_DeleteAppendsBareWrite ==
  (last.op = "delete" /\ ~last.wasFrozen) =>
     /\ ~last.threw
     /\ writes = Append(last.before,
                        [delete |-> last.ref, currentDocument |-> last.precondition])

C25_Witness ==
  /\ last.op = "delete"
  /\ ~last.wasFrozen
  /\ last.precondition = <<[exists |-> TRUE]>>
  /\ Len(last.before) = 1
  /\ IsUpdateWrite(writes[1])
  /\ IsDeleteWrite(writes[2])
  /\ writes[2].currentDocument = <<[exists |-> TRUE]>>

\* The call last made is a create, set or update whose encode threw
IsFailedPlanning == IsUpdateCall /\ last.encoded = <<>>

\* C27: when encode throws in a create, set or update, the call throws and the batch
\* holds the writes it held before, as many as before; the batch always holds exactly
\* the writes of the calls that returned, so a later call appends to them as if the
\* failed call had not been made.
C27_FailedPlanningAppendsNothing ==
  /\ IsFailedPlanning =>
       /\ last.threw
       /\ last.planned = <<>>
       /\ writes = last.before
       /\ length(writes) = length(last.before)
  /\ (IsUpdateCall /\ ~IsFailedPlanning /\ ~last.wasFrozen) =>
       writes = last.before \o MadeAs(last.op).planned
  /\ ~frozen => writes = log

C27_Witness ==
  /\ IsFailedPlanning
  /\ ~last.wasFrozen
  /\ Data = Obj1("a", increment(5))
  /\ Len(last.before) = 1
  /\ Len(writes) = 1

\* The sentinels of a value, in the order a depth-first walk meets them
RECURSIVE Sentinels(_), SentinelsOfEntries(_), SentinelsOfElements(_)
Sentinels(value) ==
  CASE value.k = "FieldValue" -> <<value>>
    [] value.k = "object" -> SentinelsOfEntries(value.entries)
    [] value.k = "array" -> SentinelsOfElements(value.elems)
    [] OTHER -> <<>>

SentinelsOfEntries(entries) ==
  IF entries = <<>> THEN <<>>
  ELSE Sentinels(entries[1][2]) \o SentinelsOfEntries(Tail(entries))

SentinelsOfElements(elems) ==
  IF elems = <<>> THEN <<>>
  ELSE Sentinels(elems[1]) \o SentinelsOfElements(Tail(elems))

\* The bare server value REQUEST_TIME, as a transform entry holds it
RequestTime == [k |-> "raw", raw |-> NStr("REQUEST_TIME")]

\* C29: the transform entry of a sentinel has the sentinel's kind as its directive and
\* holds the bare server value REQUEST_TIME for a server timestamp and the operand in
\* wire form for every other kind, whatever the path of the field.
C29_TransformEntryIgnoresFieldName ==
  (IsUpdateCall /\ last.encoded # <<>>) =>
     /\ Len(Encoded1.transforms) = Len(Sentinels(Data))
     /\ \A i \in 1..Len(Encoded1.transforms) :
          /\ Encoded1.transforms[i].transform = Sentinels(Data)[i].transform
          /\ Encoded1.transforms[i].value =
               IF Sentinels(Data)[i].transform = "setToServerValue"
                 THEN RequestTime
                 ELSE encodeValue(Sentinels(Data)[i].value, NoCollector).val

\* C30: the writes of a batch are sent to the store in at most one request; a commit
\* of a batch that has been committed sends nothing.
C30_WritesAreSentAtMostOnce ==
  /\ Len(requests) <= 1
  /\ (last.op = "commit" /\ last.wasFrozen) => Len(requests) = last.sentBefore

(* -------------------------------- batchGet --------------------------- *)

\* The answer of the service reports the document of ref missing
ReportedMissing(ref, response) ==
  \E j \in 1..Len(response) : response[j].missing = <<ReferencePath(ref)>>

\* C26: batchGet returns one snapshot per requested reference, in the order of the
\* request whatever the order of the answer, each made of what the answer holds for
\* that document; the snapshot of a document reported missing has exists false and
\* data() null, without an error.
C26_BatchGetAnswersInRequestOrder ==
  /\ call.fn = "batchGet" =>
       /\ ~Out.err
       /\ Len(Out.val) = Len(call.arg[1])
       /\ \A i \in 1..Len(call.arg[1]) :
            /\ Out.val[i].ref = call.arg[1][i]
            /\ \/ ReportedMissing(call.arg[1][i], call.arg[2])
               \/ \E j \in 1..Len(call.arg[2]) :
                    /\ call.arg[2][j].found # <<>>
                    /\ call.arg[2][j].found[1].name = ReferencePath(call.arg[1][i])
                    /\ Out.val[i].doc = call.arg[2][j].found[1]
  /\ (call.fn = "snapshot" /\ ReportedMissing(call.origin[1], call.origin[2])) =>
       /\ Out.exists = Decoded(NBool(FALSE))
       /\ Out.data = Decoded(NNull)

(* --------------------------------- tokens ---------------------------- *)

\* The claims a token was minted with: the uid of its payload, <<>> when it has none
MintedFor(jwt) == jwt.payload.uid

\* The uid a getToken call passed: <<>> when it passed no claims or claims without uid
AskedFor(claims) == IF claims = <<>> THEN <<>> ELSE claims[1].uid

\* C28: every token a getToken call resolved to was minted with the claims of that
\* call; a createCustomToken(uid) never resolves to a token minted for another uid or
\* without a uid.
C28_TokenCarriesTheClaimsOfItsCall ==
  \A i \in 1..Len(issued) :
     issued[i].state = "resolved" =>
        /\ MintedFor(issued[i].token[1]) = AskedFor(issued[i].claims)
        /\ AskedFor(issued[i].claims) # <<>> =>
             issued[i].token[1].payload.sub = AskedFor(issued[i].claims)[1]

====
